---- MODULE Spec2Model ----
(***************************************************************************)
(* System Python 3.13 enforcement validator of mcp-manager.                *)
(*                                                                         *)
(* The module models                                                       *)
(*   - python_env.py: find_system_python, get_python_version,              *)
(*     is_python_313, get_venv_base_python, get_installation_source;       *)
(*   - uv_config.py: check_uv_installed, get_uv_config_path,               *)
(*     validate_uv_config and its two parsers;                             *)
(*   - models/python_enforcement.py: PythonEnvironment, UVConfiguration    *)
(*     (field validators, check_compliance), ValidationResult.exit_code;   *)
(*   - validators/python_enforcement_validator.py:                         *)
(*     validate_python_environment, one action per step of the function.   *)
(*                                                                         *)
(* Text is a sequence of one-character strings, so that strip, split and   *)
(* the digit scan of the version probe are computed as the code computes   *)
(* them.  An exception that leaves a function is an explicit outcome:      *)
(* pc = "raised".  Messages are tuples of their literal text and the       *)
(* values formatted into it.  The files of the project root are recorded   *)
(* in the state at the step that reads them.  The distribution label and   *)
(* the timestamp of a verdict take no part in any decision and are left    *)
(* out.                                                                    *)
(***************************************************************************)
EXTENDS Integers, Sequences, FiniteSets, TLC

VARIABLES
    fs,                 \* executables on disk: path -> [kind, exec]
    venv,               \* sys.prefix / pyvenv.cfg of the running process
    uv_on_path,         \* shutil.which("uv") is not None
    toml,               \* the toml library was importable (uv_config.py:16-20)
    project,            \* files of project_root, as read by step 4
    pc,                 \* position inside validate_python_environment
    python_path,        \* local python_path
    version,            \* local version
    venv_base_python,   \* local venv_base_python
    in_virtualenv,      \* local in_virtualenv
    python_environment, \* local python_environment
    uv_configuration,   \* local uv_configuration
    errors,             \* local errors
    warnings,           \* local warnings
    checks_performed,   \* local checks_performed
    status,             \* status of the returned ValidationResult
    exit_code,          \* ValidationResult.exit_code of the returned verdict
    calls,              \* number of check_compliance calls made on uv_configuration
    probes,             \* number of probes made of python_path on its own
    is_313,             \* value returned by is_python_313(python_path)
    uv_config_path,     \* value returned by get_uv_config_path(project_root)
    uv_config,          \* dict returned by validate_uv_config(project_root)
    runs,               \* number of the validation run under way
    previous,           \* what the run before this one ended with
    probes_changed,     \* the located path has changed what it reports
    global_uv_config,   \* ~/.config/uv/uv.toml
    global_conflicts,   \* dict returned by check_global_uv_conflicts
    json_output,        \* model_dump_json() of the returned verdict
    reloaded,           \* the verdict validated back from json_output
    legacy_config,      \* project_root/.uv/config and its backup
    migration           \* dict returned by migrate_legacy_uv_config

vars == <<fs, venv, uv_on_path, toml, project, pc, python_path, version,
          venv_base_python, in_virtualenv, python_environment,
          uv_configuration, errors, warnings, checks_performed, status,
          exit_code, calls, probes, is_313, uv_config_path, uv_config,
          runs, previous, probes_changed, global_uv_config, global_conflicts,
          json_output, reloaded, legacy_config, migration>>

\* what the functions called on their own have returned
other_results ==
    <<global_uv_config, global_conflicts, json_output, reloaded,
      legacy_config, migration>>

run_history == <<runs, previous, probes_changed>>

call_results ==
    <<probes, is_313, uv_config_path, uv_config, run_history, other_results>>

----------------------------------------------------------------------------
(* Python values *)

None == "None"          \* an absent str / Path
NoVersion == <<>>       \* an absent version tuple
NoPin == <<>>           \* python_version_pinned is None; <<text>> otherwise
Raised == "raised"      \* marker: the call ended in an exception

----------------------------------------------------------------------------
(* str methods used by the code, on sequences of characters *)

Digit == {"0", "1", "2", "3", "4", "5", "6", "7", "8", "9"}

DigitVal(c) ==
    CASE c = "0" -> 0 [] c = "1" -> 1 [] c = "2" -> 2 [] c = "3" -> 3
      [] c = "4" -> 4 [] c = "5" -> 5 [] c = "6" -> 6 [] c = "7" -> 7
      [] c = "8" -> 8 [] c = "9" -> 9

IsSpace(c) == c \in {" ", "\n", "\t"}

RECURSIVE LStrip(_)
LStrip(s) ==
    IF s = <<>> THEN <<>>
    ELSE IF IsSpace(Head(s)) THEN LStrip(Tail(s)) ELSE s

RECURSIVE RStrip(_)
RStrip(s) ==
    IF s = <<>> THEN <<>>
    ELSE IF IsSpace(s[Len(s)]) THEN RStrip(SubSeq(s, 1, Len(s) - 1)) ELSE s

\* str.strip()
Strip(s) == RStrip(LStrip(s))

\* str.startswith(p)
StartsWith(s, p) == Len(s) >= Len(p) /\ SubSeq(s, 1, Len(p)) = p

\* length of the leading run of non-space characters
RECURSIVE WordLen(_)
WordLen(s) ==
    IF s = <<>> \/ IsSpace(Head(s)) THEN 0 ELSE 1 + WordLen(Tail(s))

\* str.split() with no argument: the whitespace-separated words
RECURSIVE SplitWords(_)
SplitWords(s) ==
    LET t == LStrip(s) IN
    IF t = <<>> THEN <<>>
    ELSE <<SubSeq(t, 1, WordLen(t))>>
         \o SplitWords(SubSeq(t, WordLen(t) + 1, Len(t)))

\* length of the leading run of characters other than sep
RECURSIVE FieldLen(_, _)
FieldLen(s, sep) ==
    IF s = <<>> \/ Head(s) = sep THEN 0 ELSE 1 + FieldLen(Tail(s), sep)

\* str.split(sep): one field more than there are separators
RECURSIVE SplitOn(_, _)
SplitOn(s, sep) ==
    LET n == FieldLen(s, sep) IN
    IF n = Len(s) THEN <<s>>
    ELSE <<SubSeq(s, 1, n)>> \o SplitOn(SubSeq(s, n + 2, Len(s)), sep)

\* the loop of python_env.py:113-118: the leading run of digits
RECURSIVE LeadingDigits(_)
LeadingDigits(s) ==
    IF s = <<>> \/ Head(s) \notin Digit THEN <<>>
    ELSE <<Head(s)>> \o LeadingDigits(Tail(s))

RECURSIVE DigitsValue(_)
DigitsValue(s) ==
    IF s = <<>> THEN 0
    ELSE 10 * DigitsValue(SubSeq(s, 1, Len(s) - 1)) + DigitVal(s[Len(s)])

\* int(s): an optional sign, then digits only; anything else is ValueError
IntOk(s) ==
    LET body == IF s # <<>> /\ Head(s) \in {"+", "-"} THEN Tail(s) ELSE s IN
    body # <<>> /\ \A i \in 1..Len(body) : body[i] \in Digit

IntValue(s) ==
    IF Head(s) = "-" THEN 0 - DigitsValue(Tail(s))
    ELSE IF Head(s) = "+" THEN DigitsValue(Tail(s))
    ELSE DigitsValue(s)

----------------------------------------------------------------------------
(* python_env.py *)

PYTHON_SEARCH_PATHS ==
    <<"/usr/bin/python3.13", "/usr/local/bin/python3.13",
      "/opt/homebrew/bin/python3.13">>

\* the directory named by "home = " in pyvenv.cfg, and the two names tried
VenvHome313 == "/opt/py/bin/python3.13"
VenvHome3 == "/opt/py/bin/python3"

ExecPaths ==
    {PYTHON_SEARCH_PATHS[i] : i \in 1..Len(PYTHON_SEARCH_PATHS)}
        \cup {VenvHome313, VenvHome3}

Exists(p) == fs[p].kind # "absent"
IsFile(p) == fs[p].kind = "file"

PythonLabel == <<"P", "y", "t", "h", "o", "n", " ">>

\* python_env.py:97-123, the parse of the captured output
ParseVersionOutput(stdout, stderr) ==
    LET output == IF Strip(stdout) # <<>> THEN Strip(stdout) ELSE Strip(stderr)
    IN
    IF output = <<>> THEN NoVersion
    ELSE IF ~StartsWith(output, PythonLabel) THEN NoVersion
    ELSE LET version_str == SplitWords(output)[2]
             parts == SplitOn(version_str, ".")
         IN
         IF Len(parts) < 3 THEN NoVersion
         ELSE LET micro_str == LeadingDigits(parts[3]) IN
              IF micro_str = <<>> THEN NoVersion
              ELSE IF ~IntOk(parts[1]) \/ ~IntOk(parts[2]) THEN NoVersion
              ELSE <<IntValue(parts[1]), IntValue(parts[2]),
                     DigitsValue(micro_str)>>

\* subprocess.run at python_env.py:89 fails with an OSError (PermissionError,
\* exec format error): the except clause of line 125 does not name OSError,
\* so the exception leaves get_python_version and every caller up to the
\* first handler that names it
ProbeRaises(p) == Exists(p) /\ fs[p].exec.launch = "oserror"

\* mutant: stderr is not read when stdout is empty
get_python_version_stdout_only(p) ==
    IF ~Exists(p) THEN NoVersion
    ELSE IF fs[p].exec.launch \in {"timeout", "subprocess_error"} THEN NoVersion
    ELSE ParseVersionOutput(fs[p].exec.stdout, <<>>)

\* get_python_version(python_path), for a probe that does not raise:
\* TimeoutExpired and SubprocessError are caught at line 125, and the exit
\* status is not looked at (check=False)
get_python_version(p) ==
    IF ~Exists(p) THEN NoVersion
    ELSE IF fs[p].exec.launch \in {"timeout", "subprocess_error"} THEN NoVersion
    ELSE ParseVersionOutput(fs[p].exec.stdout, fs[p].exec.stderr)

\* is_python_313(python_path), for a probe that does not raise
is_python_313(p) ==
    LET v == get_python_version(p) IN
    IF v = NoVersion THEN FALSE ELSE SubSeq(v, 1, 2) = <<3, 13>>

\* the loop of find_system_python from the i-th search path on:
\* a path, None, or Raised when a probe raises
RECURSIVE FindFrom(_)
FindFrom(i) ==
    IF i > Len(PYTHON_SEARCH_PATHS) THEN None
    ELSE LET p == PYTHON_SEARCH_PATHS[i] IN
         IF Exists(p) /\ IsFile(p)
         THEN IF ProbeRaises(p) THEN Raised
              ELSE IF is_python_313(p) THEN p ELSE FindFrom(i + 1)
         ELSE FindFrom(i + 1)

\* mutant: the first regular file of the list is returned without a probe
find_system_python_unprobed ==
    IF \E i \in 1..Len(PYTHON_SEARCH_PATHS) : IsFile(PYTHON_SEARCH_PATHS[i])
    THEN PYTHON_SEARCH_PATHS[
             CHOOSE i \in 1..Len(PYTHON_SEARCH_PATHS) :
                /\ IsFile(PYTHON_SEARCH_PATHS[i])
                /\ \A j \in 1..(i - 1) : ~IsFile(PYTHON_SEARCH_PATHS[j])]
    ELSE None

\* find_system_python()
find_system_python == FindFrom(1)

\* get_venv_base_python() with venv_path = None.  The try block of lines
\* 278-308 catches OSError, so a probe of home/python3 that raises gives None
get_venv_base_python ==
    IF ~venv.isolated THEN None
    ELSE IF venv.cfg \in {"missing", "unreadable", "nohome"} THEN None
    ELSE IF Exists(VenvHome313) /\ IsFile(VenvHome313) THEN VenvHome313
    ELSE IF Exists(VenvHome3) /\ IsFile(VenvHome3)
         THEN IF ProbeRaises(VenvHome3) THEN None
              ELSE IF is_python_313(VenvHome3) THEN VenvHome3 ELSE None
    ELSE None

get_installation_source(p) ==
    CASE p = "/usr/bin/python3.13" -> "package_manager"
      [] p = "/opt/homebrew/bin/python3.13" -> "package_manager"
      [] p = "/usr/local/bin/python3.13" -> "manual_install"
      [] OTHER -> "unknown"

\* python_path.parent
Parent(p) ==
    CASE p = "/usr/bin/python3.13" -> "/usr/bin"
      [] p = "/opt/homebrew/bin/python3.13" -> "/opt/homebrew/bin"
      [] p = "/usr/local/bin/python3.13" -> "/usr/local/bin"
      [] OTHER -> "/opt/py/bin"

----------------------------------------------------------------------------
(* uv_config.py *)

\* the keys validate_uv_config looks up in the parsed dict
KeyNames ==
    {"python-downloads", "python_downloads",
     "python-preference", "python_preference"}

\* dict.get(k) of a dict without the key is None
EmptyDict == [k \in KeyNames |-> None]

\* a or b, for a and b each None or a non-empty str
TruthyOr(a, b) == IF a # None THEN a ELSE b

\* A config file's text is kept as what the two parsers can tell apart:
\*   syntax_ok: the text is valid TOML;
\*   section:   "top" when the key = value lines stand before any header,
\*              "tool.uv" when they stand under a [tool.uv] header;
\*   keys:      the value written for each key (None: no such line).

\* mutant: the tool is taken to be installed without looking
check_uv_installed_unchecked == TRUE

\* check_uv_installed()
check_uv_installed == uv_on_path

\* toml.load raises on text that is not valid TOML; the line scanners of
\* the fallback branches raise nothing
TomlLoadRaises(c) == toml /\ ~c.syntax_ok

\* _parse_uv_toml(config_path): toml.load returns the nested document, whose
\* top level holds only the keys written before any header; the fallback
\* keeps every key = value line whatever header precedes it
_parse_uv_toml(c) ==
    IF toml
    THEN IF c.section = "top" THEN c.keys ELSE EmptyDict
    ELSE c.keys

\* _parse_pyproject_toml(config_path): the [tool.uv] table
_parse_pyproject_toml(c) ==
    IF c.section = "tool.uv" THEN c.keys ELSE EmptyDict

\* mutant: pyproject.toml is returned without looking for its section
get_uv_config_path_any_pyproject(pr) ==
    IF pr.uv_toml.kind = "file" THEN "uv.toml"
    ELSE IF pr.pyproject.kind = "file" THEN "pyproject.toml"
    ELSE None

\* get_uv_config_path(project_root): "uv.toml", "pyproject.toml" or None
get_uv_config_path(pr) ==
    IF pr.uv_toml.kind = "file" THEN "uv.toml"
    ELSE IF pr.pyproject.kind = "file"
         THEN IF toml
              THEN IF pr.pyproject.content.syntax_ok
                      /\ pr.pyproject.content.section = "tool.uv"
                   THEN "pyproject.toml" ELSE None
              ELSE IF pr.pyproject.content.section = "tool.uv"
                   THEN "pyproject.toml" ELSE None
    ELSE None

\* mutant: the content is recorded without the test for emptiness
ReadPythonVersionFile_unchecked(pr) ==
    IF pr.python_version.kind = "file"
    THEN <<Strip(pr.python_version.text)>>
    ELSE NoPin

\* uv_config.py:168-177, the .python-version side file
ReadPythonVersionFile(pr) ==
    IF pr.python_version.kind = "file"
    THEN LET version_content == Strip(pr.python_version.text) IN
         IF version_content # <<>> THEN <<version_content>> ELSE NoPin
    ELSE NoPin

\* validate_uv_config(project_root): the result dict
validate_uv_config(pr) ==
    LET config_path == get_uv_config_path(pr)
        c == IF config_path = "uv.toml" THEN pr.uv_toml.content
             ELSE pr.pyproject.content
        config_data ==
            IF config_path = None \/ TomlLoadRaises(c) THEN EmptyDict
            ELSE IF config_path = "uv.toml" THEN _parse_uv_toml(c)
            ELSE _parse_pyproject_toml(c)
    IN  [config_file |-> config_path,
         python_downloads |->
             TruthyOr(config_data["python-downloads"],
                      config_data["python_downloads"]),
         python_preference |->
             TruthyOr(config_data["python-preference"],
                      config_data["python_preference"]),
         python_version_pinned |-> ReadPythonVersionFile(pr)]

\* Path.home() / ".config" / "uv" / "uv.toml", and the name the resolution
\* text proposes to move it to
GlobalConfigPath == "~/.config/uv/uv.toml"
GlobalBackupPath == "~/.config/uv/uv.toml.backup"

\* mutant: a failure to read or parse the global file goes unnoticed
GlobalParseRaises_never(g) == FALSE

\* lines 488-494: open() raises on a directory, toml.load on text that is
\* not valid TOML; the line scanner used without the library raises nothing
GlobalParseRaises(g) ==
    \/ g.kind = "dir"
    \/ TomlLoadRaises(g.content)

\* mutant: only the download policy is compared
check_global_uv_conflicts_downloads_only(g) ==
    IF g.kind = "absent"
    THEN [has_conflicts |-> FALSE, global_config_exists |-> FALSE,
          global_config_path |-> None, conflicts |-> <<>>,
          resolution |->
              [text |-> "No global UV config found - no conflicts",
               command |-> <<>>]]
    ELSE IF GlobalParseRaises(g)
    THEN [has_conflicts |-> TRUE, global_config_exists |-> TRUE,
          global_config_path |-> GlobalConfigPath,
          conflicts |-> << <<"Failed to parse global config: ", g.kind>> >>,
          resolution |->
              [text |-> "Unable to validate global config. Consider renaming it:",
               command |-> <<"mv", GlobalConfigPath, GlobalBackupPath>>]]
    ELSE LET global_config == _parse_uv_toml(g.content)
             python_downloads ==
                 TruthyOr(global_config["python-downloads"],
                          global_config["python_downloads"])
             downloads_conflict ==
                 python_downloads # None
                     /\ python_downloads \notin {"manual", "never"}
             has_conflicts == downloads_conflict
         IN  [has_conflicts |-> has_conflicts,
              global_config_exists |-> TRUE,
              global_config_path |-> GlobalConfigPath,
              conflicts |->
                  (IF downloads_conflict
                   THEN << <<"Global config has python-downloads=",
                             python_downloads,
                             ", but constitutional requirement is 'never' or 'manual'">> >>
                   ELSE <<>>),
              resolution |->
                  IF has_conflicts
                  THEN [text |-> "Rename or backup global UV config to prevent conflicts:",
                        command |-> <<"mv", GlobalConfigPath, GlobalBackupPath>>]
                  ELSE [text |-> "Global UV config is compatible with project requirements",
                        command |-> <<>>]]

\* check_global_uv_conflicts(project_root), the result dict, with the file
\* at the global path as g
check_global_uv_conflicts(g) ==
    IF g.kind = "absent"
    THEN [has_conflicts |-> FALSE, global_config_exists |-> FALSE,
          global_config_path |-> None, conflicts |-> <<>>,
          resolution |->
              [text |-> "No global UV config found - no conflicts",
               command |-> <<>>]]
    ELSE IF GlobalParseRaises(g)
    THEN [has_conflicts |-> TRUE, global_config_exists |-> TRUE,
          global_config_path |-> GlobalConfigPath,
          conflicts |-> << <<"Failed to parse global config: ", g.kind>> >>,
          resolution |->
              [text |-> "Unable to validate global config. Consider renaming it:",
               command |-> <<"mv", GlobalConfigPath, GlobalBackupPath>>]]
    ELSE LET global_config == _parse_uv_toml(g.content)
             python_downloads ==
                 TruthyOr(global_config["python-downloads"],
                          global_config["python_downloads"])
             python_preference ==
                 TruthyOr(global_config["python-preference"],
                          global_config["python_preference"])
             downloads_conflict ==
                 python_downloads # None
                     /\ python_downloads \notin {"manual", "never"}
             preference_conflict ==
                 python_preference # None
                     /\ python_preference # "only-system"
             has_conflicts == downloads_conflict \/ preference_conflict
         IN  [has_conflicts |-> has_conflicts,
              global_config_exists |-> TRUE,
              global_config_path |-> GlobalConfigPath,
              conflicts |->
                  (IF downloads_conflict
                   THEN << <<"Global config has python-downloads=",
                             python_downloads,
                             ", but constitutional requirement is 'never' or 'manual'">> >>
                   ELSE <<>>)
                  \o
                  (IF preference_conflict
                   THEN << <<"Global config has python-preference=",
                             python_preference,
                             ", but constitutional requirement is 'only-system'">> >>
                   ELSE <<>>),
              resolution |->
                  IF has_conflicts
                  THEN [text |-> "Rename or backup global UV config to prevent conflicts:",
                        command |-> <<"mv", GlobalConfigPath, GlobalBackupPath>>]
                  ELSE [text |-> "Global UV config is compatible with project requirements",
                        command |-> <<>>]]

----------------------------------------------------------------------------
(* models/python_enforcement.py *)

NoEnvironment == [present |-> FALSE]
NoConfiguration == [present |-> FALSE]

\* PythonEnvironment(...): the field validators of lines 85-121 raise when
\* the version is not 3.13.x or the path is not an existing regular file
PythonEnvironmentRaises(p, v) ==
    \/ SubSeq(v, 1, 2) # <<3, 13>>
    \/ ~Exists(p)
    \/ ~IsFile(p)

PythonEnvironment(p, v, valid, in_venv, base) ==
    [present |-> TRUE, executable_path |-> p, version |-> v,
     source |-> get_installation_source(p), is_valid |-> valid,
     in_virtualenv |-> in_venv, venv_base_python |-> base]

DownloadsLiteral == {"automatic", "manual", "never", None}
PreferenceLiteral == {"only-managed", "managed", "system", "only-system", None}

\* UVConfiguration(...): pydantic rejects a value outside the two Literal
\* types, and validate_config_exists (lines 207-223) a path that does not
\* exist
UVConfigurationRaises(path_exists, downloads, preference) ==
    \/ ~path_exists
    \/ downloads \notin DownloadsLiteral
    \/ preference \notin PreferenceLiteral

UVConfiguration(path, downloads, preference, pinned, compliant, violations) ==
    [present |-> TRUE, config_file_path |-> path,
     python_downloads |-> downloads, python_preference |-> preference,
     python_version_pinned |-> pinned, is_compliant |-> compliant,
     compliance_violations |-> violations]

\* mutant: only "never" is taken to prevent downloads
prevents_python_downloads_never(cfg) == cfg.python_downloads = "never"

\* UVConfiguration.prevents_python_downloads
prevents_python_downloads(cfg) == cfg.python_downloads \in {"manual", "never"}

uses_only_system_python(cfg) == cfg.python_preference = "only-system"

has_python_version_pin(cfg) == cfg.python_version_pinned # NoPin

\* mutant: the rules short-circuit, so only the first failing one is listed
check_compliance_first_only(cfg) ==
    LET violations ==
            IF ~prevents_python_downloads(cfg)
            THEN << <<"UV allows Python downloads (python-downloads=",
                      cfg.python_downloads,
                      "). Must be 'manual' or 'never'.">> >>
            ELSE IF ~uses_only_system_python(cfg)
            THEN << <<"UV not configured for system-only Python (python-preference=",
                      cfg.python_preference,
                      "). Must be 'only-system'.">> >>
            ELSE IF ~has_python_version_pin(cfg)
            THEN << <<"Missing .python-version file to pin Python 3.13">> >>
            ELSE <<>>
    IN  [cfg EXCEPT !.compliance_violations = violations,
                    !.is_compliant = (Len(violations) = 0)]

\* UVConfiguration.check_compliance(), the object after the call
check_compliance(cfg) ==
    LET v1 == IF ~prevents_python_downloads(cfg)
              THEN << <<"UV allows Python downloads (python-downloads=",
                        cfg.python_downloads,
                        "). Must be 'manual' or 'never'.">> >>
              ELSE <<>>
        v2 == IF ~uses_only_system_python(cfg)
              THEN << <<"UV not configured for system-only Python (python-preference=",
                        cfg.python_preference,
                        "). Must be 'only-system'.">> >>
              ELSE <<>>
        v3 == IF ~has_python_version_pin(cfg)
              THEN << <<"Missing .python-version file to pin Python 3.13">> >>
              ELSE <<>>
        violations == v1 \o v2 \o v3
    IN  [cfg EXCEPT !.compliance_violations = violations,
                    !.is_compliant = (Len(violations) = 0)]

\* mutant: FAIL and ERROR exchanged
ValidationResult_exit_code_swapped(st) ==
    CASE st = "PASS" -> 0
      [] st = "FAIL" -> 2
      [] st = "ERROR" -> 1

\* ValidationResult.exit_code
ValidationResult_exit_code(st) ==
    CASE st = "PASS" -> 0
      [] st = "FAIL" -> 1
      [] st = "ERROR" -> 2

\* a ValidationResult, by its fields (the timestamp, which no step reads,
\* left out)
ValidationResult(st, env, cfg, errs, warns, checks) ==
    [status |-> st, python_environment |-> env, uv_configuration |-> cfg,
     errors |-> errs, warnings |-> warns, checks_performed |-> checks]

\* ValidationResult.to_summary() of the verdict v, as its lines: the heading
\* (without its leading mark), then what is joined under it
to_summary_of(v) ==
    CASE v.status = "PASS" ->
           << <<"PASS: System Python 3.13 enforcement validated">>,
              <<"Python: ", v.python_environment.executable_path,
                v.python_environment.version>>,
              <<"UV Config: Compliant (only-system, downloads=",
                v.uv_configuration.python_downloads>> >>
      [] v.status = "FAIL" ->
           LET violations == IF v.uv_configuration.present
                             THEN v.uv_configuration.compliance_violations
                             ELSE <<>>
           IN  << <<"FAIL: Constitution violations detected">> >> \o violations
      [] OTHER ->
           << <<"ERROR: Validation could not complete">> >> \o v.errors

\* to_summary() of the verdict the run returned
to_summary ==
    to_summary_of(ValidationResult(status, python_environment,
                                   uv_configuration, errors, warnings,
                                   checks_performed))

\* JSON values
JNull == [type |-> "null"]
JString(x) == [type |-> "string", value |-> x]
JNumber(n) == [type |-> "number", value |-> n]
JBool(b) == [type |-> "boolean", value |-> b]
JArray(a) == [type |-> "array", items |-> a]
JObject(f) == [type |-> "object", fields |-> f]

\* how pydantic writes a Path | None or str | None, a list[str], a tuple of
\* int, the str | None of the version pin
DumpOptional(x) == IF x = None THEN JNull ELSE JString(x)
DumpStrings(l) == JArray([i \in 1..Len(l) |-> JString(l[i])])
DumpInts(t) == JArray([i \in 1..Len(t) |-> JNumber(t[i])])
DumpPin(x) == IF x = NoPin THEN JNull ELSE JString(x[1])

\* and how it reads them back
LoadOptional(j) == IF j.type = "null" THEN None ELSE j.value
LoadStrings(j) == [i \in 1..Len(j.items) |-> j.items[i].value]
LoadInts(j) == [i \in 1..Len(j.items) |-> j.items[i].value]
LoadPin(j) == IF j.type = "null" THEN NoPin ELSE <<j.value>>

\* mutant: compliance_violations is not among the fields written
model_dump_json_without_violations(v) ==
    JObject(
      [status |-> JString(v.status),
       python_environment |->
           IF ~v.python_environment.present THEN JNull
           ELSE JObject(
                  [executable_path |-> JString(v.python_environment.executable_path),
                   version |-> DumpInts(v.python_environment.version),
                   source |-> JString(v.python_environment.source),
                   is_valid |-> JBool(v.python_environment.is_valid),
                   in_virtualenv |-> JBool(v.python_environment.in_virtualenv),
                   venv_base_python |->
                       DumpOptional(v.python_environment.venv_base_python)]),
       uv_configuration |->
           IF ~v.uv_configuration.present THEN JNull
           ELSE JObject(
                  [config_file_path |-> JString(v.uv_configuration.config_file_path),
                   python_downloads |->
                       DumpOptional(v.uv_configuration.python_downloads),
                   python_preference |->
                       DumpOptional(v.uv_configuration.python_preference),
                   python_version_pinned |->
                       DumpPin(v.uv_configuration.python_version_pinned),
                   is_compliant |-> JBool(v.uv_configuration.is_compliant),
                   compliance_violations |-> DumpStrings(<<>>)]),
       errors |-> DumpStrings(v.errors),
       warnings |-> DumpStrings(v.warnings),
       checks_performed |-> DumpStrings(v.checks_performed)])

\* ValidationResult.model_dump_json(): every declared field of the three
\* models, properties left out, a missing object as null
model_dump_json(v) ==
    JObject(
      [status |-> JString(v.status),
       python_environment |->
           IF ~v.python_environment.present THEN JNull
           ELSE JObject(
                  [executable_path |-> JString(v.python_environment.executable_path),
                   version |-> DumpInts(v.python_environment.version),
                   source |-> JString(v.python_environment.source),
                   is_valid |-> JBool(v.python_environment.is_valid),
                   in_virtualenv |-> JBool(v.python_environment.in_virtualenv),
                   venv_base_python |->
                       DumpOptional(v.python_environment.venv_base_python)]),
       uv_configuration |->
           IF ~v.uv_configuration.present THEN JNull
           ELSE JObject(
                  [config_file_path |-> JString(v.uv_configuration.config_file_path),
                   python_downloads |->
                       DumpOptional(v.uv_configuration.python_downloads),
                   python_preference |->
                       DumpOptional(v.uv_configuration.python_preference),
                   python_version_pinned |->
                       DumpPin(v.uv_configuration.python_version_pinned),
                   is_compliant |-> JBool(v.uv_configuration.is_compliant),
                   compliance_violations |->
                       DumpStrings(v.uv_configuration.compliance_violations)]),
       errors |-> DumpStrings(v.errors),
       warnings |-> DumpStrings(v.warnings),
       checks_performed |-> DumpStrings(v.checks_performed)])

\* whether the config file path of a document exists in the project pr
ConfigPathExists(pr, path) ==
    CASE path = "uv.toml" -> pr.uv_toml.kind # "absent"
      [] path = "pyproject.toml" -> pr.pyproject.kind # "absent"
      [] OTHER -> FALSE

\* ValidationResult.model_validate_json(j) raises: the Literal types and the
\* field validators of the nested models are applied to what is read
ModelValidateJsonRaises(j, pr) ==
    LET env == j.fields.python_environment
        cfg == j.fields.uv_configuration
    IN  \/ j.fields.status.value \notin {"PASS", "FAIL", "ERROR"}
        \/ /\ env.type # "null"
           /\ \/ PythonEnvironmentRaises(env.fields.executable_path.value,
                                         LoadInts(env.fields.version))
              \/ env.fields.source.value
                    \notin {"package_manager", "manual_install", "unknown"}
        \/ /\ cfg.type # "null"
           /\ UVConfigurationRaises(
                  ConfigPathExists(pr, cfg.fields.config_file_path.value),
                  LoadOptional(cfg.fields.python_downloads),
                  LoadOptional(cfg.fields.python_preference))

\* ValidationResult.model_validate_json(j), when it does not raise
model_validate_json(j) ==
    LET env == j.fields.python_environment
        cfg == j.fields.uv_configuration
    IN  ValidationResult(
            j.fields.status.value,
            IF env.type = "null" THEN NoEnvironment
            ELSE [present |-> TRUE,
                  executable_path |-> env.fields.executable_path.value,
                  version |-> LoadInts(env.fields.version),
                  source |-> env.fields.source.value,
                  is_valid |-> env.fields.is_valid.value,
                  in_virtualenv |-> env.fields.in_virtualenv.value,
                  venv_base_python |->
                      LoadOptional(env.fields.venv_base_python)],
            IF cfg.type = "null" THEN NoConfiguration
            ELSE UVConfiguration(
                     cfg.fields.config_file_path.value,
                     LoadOptional(cfg.fields.python_downloads),
                     LoadOptional(cfg.fields.python_preference),
                     LoadPin(cfg.fields.python_version_pinned),
                     cfg.fields.is_compliant.value,
                     LoadStrings(cfg.fields.compliance_violations)),
            LoadStrings(j.fields.errors),
            LoadStrings(j.fields.warnings),
            LoadStrings(j.fields.checks_performed))

----------------------------------------------------------------------------
(* The environments a run is started in *)

Text313 == <<"P", "y", "t", "h", "o", "n", " ", "3", ".", "1", "3", ".", "0", "\n">>
Text312 == <<"P", "y", "t", "h", "o", "n", " ", "3", ".", "1", "2", ".", "9", "9", "\n">>

\* what running "<path> --version" does
Ran(out) == [launch |-> "ok", returncode |-> 0, stdout |-> out, stderr |-> <<>>]
NotLaunchable ==
    [launch |-> "oserror", returncode |-> 0, stdout |-> <<>>, stderr |-> <<>>]

ExecSamples == {Ran(Text313), Ran(Text312), NotLaunchable}

Absent == [kind |-> "absent", exec |-> NotLaunchable]
Directory == [kind |-> "dir", exec |-> NotLaunchable]
File(e) == [kind |-> "file", exec |-> e]

Entries == {Absent, Directory} \cup {File(e) : e \in ExecSamples}

VenvStates ==
    {[isolated |-> FALSE, cfg |-> "missing"]}
        \cup {[isolated |-> TRUE, cfg |-> c] :
                c \in {"missing", "unreadable", "nohome", "home"}}

\* a config file's text
Content(ok, sec, downloads, preference) ==
    [syntax_ok |-> ok, section |-> sec,
     keys |-> [k \in KeyNames |->
                 CASE k = "python-downloads" -> downloads
                   [] k = "python-preference" -> preference
                   [] OTHER -> None]]

NoContent == Content(TRUE, "top", None, None)

DownloadsSamples == {None, "automatic", "manual", "never", "always"}
PreferenceSamples == {None, "managed", "only-system", "sometimes"}

UvTomlContents ==
    {Content(TRUE, "top", d, p) : d \in DownloadsSamples, p \in PreferenceSamples}
        \cup {Content(TRUE, "tool.uv", "never", "only-system"),
              Content(FALSE, "top", "never", "only-system")}

PyprojectContents ==
    {Content(TRUE, "tool.uv", "never", "only-system"),
     Content(TRUE, "tool.uv", "automatic", "only-system"),
     Content(TRUE, "tool.uv", "always", None),
     Content(TRUE, "top", "never", "only-system"),
     Content(FALSE, "tool.uv", "never", "only-system")}

ConfigFile(c) == [kind |-> "file", content |-> c]
NoConfigFile == [kind |-> "absent", content |-> NoContent]
ConfigDirectory == [kind |-> "dir", content |-> NoContent]

PinFiles ==
    {[kind |-> "absent", text |-> <<>>],
     [kind |-> "file", text |-> <<"\n">>],
     [kind |-> "file", text |-> <<"3", ".", "1", "3", "\n">>]}

\* the project roots a run may read; pyproject.toml is not looked at when
\* uv.toml is a regular file, so it is left out there
ProjectStates ==
    {[read |-> TRUE, uv_toml |-> ConfigFile(c), pyproject |-> NoConfigFile,
      python_version |-> pin] : c \in UvTomlContents, pin \in PinFiles}
    \cup
    {[read |-> TRUE, uv_toml |-> u, pyproject |-> p, python_version |-> pin] :
        u \in {NoConfigFile, ConfigDirectory},
        p \in {NoConfigFile} \cup {ConfigFile(c) : c \in PyprojectContents},
        pin \in PinFiles}

NotRead == [read |-> FALSE]

\* values of the variables that a specification does not use
NoPrevious == [pc |-> None, status |-> None, violations |-> <<>>, errors |-> <<>>]
NoConflictsResult ==
    [has_conflicts |-> FALSE, global_config_exists |-> FALSE,
     global_config_path |-> None, conflicts |-> <<>>,
     resolution |-> [text |-> None, command |-> <<>>]]
NoJson == JNull
NoVerdict == [status |-> None]
NoLegacy == [config |-> "absent", backup |-> "absent"]
NoMigration ==
    [status |-> None, backup_path |-> None, migrated_from |-> None,
     migrated_to |-> None]

\* no function has been called on its own
NothingCalled ==
    /\ probes = 0
    /\ is_313 = FALSE
    /\ uv_config_path = None
    /\ uv_config = [config_file |-> None, python_downloads |-> None,
                    python_preference |-> None,
                    python_version_pinned |-> NoPin]
    /\ runs = 1
    /\ previous = NoPrevious
    /\ probes_changed = FALSE
    /\ global_uv_config = NoConfigFile
    /\ global_conflicts = NoConflictsResult
    /\ json_output = NoJson
    /\ reloaded = NoVerdict
    /\ legacy_config = NoLegacy
    /\ migration = NoMigration

----------------------------------------------------------------------------
(* validate_python_environment, step by step *)

Init ==
    /\ fs \in [ExecPaths -> Entries]
    /\ venv \in VenvStates
    \* the home directory of pyvenv.cfg matters only when the file names one,
    \* and home/python3 only when home/python3.13 is not a regular file
    /\ ~(venv.isolated /\ venv.cfg = "home")
          => fs[VenvHome313] = Absent /\ fs[VenvHome3] = Absent
    /\ fs[VenvHome313].kind = "file" => fs[VenvHome3] = Absent
    /\ uv_on_path \in BOOLEAN
    /\ toml \in BOOLEAN
    /\ project = NotRead
    /\ pc = "start"
    /\ python_path = None
    /\ version = NoVersion
    /\ venv_base_python = None
    /\ in_virtualenv = FALSE
    /\ python_environment = NoEnvironment
    /\ uv_configuration = NoConfiguration
    /\ errors = <<>>
    /\ warnings = <<>>
    /\ checks_performed = <<>>
    /\ status = None
    /\ exit_code = -1
    /\ calls = 0
    /\ NothingCalled

\* return ValidationResult(status=st, ...)
Returns(st) ==
    /\ pc' = "done"
    /\ status' = st
    /\ exit_code' = ValidationResult_exit_code(st)

\* mutant: the step after the virtual-environment check is left out
Continues_skipping_tool(next) ==
    /\ pc' = (IF next = "tool" THEN "config" ELSE next)
    /\ UNCHANGED <<status, exit_code>>

\* fall through to the next step
Continues(next) ==
    /\ pc' = next
    /\ UNCHANGED <<status, exit_code>>

\* an exception leaves validate_python_environment
Raises ==
    /\ pc' = Raised
    /\ UNCHANGED <<status, exit_code>>

\* f"{version[0]}.{version[1]}.{version[2]}" if version else "unknown"
VersionStr(v) == IF v = NoVersion THEN <<"unknown">> ELSE v

\* lines 75-99: step 1, search for the runtime
LocateRuntime ==
    /\ pc = "start"
    /\ LET found == find_system_python IN
       IF found = Raised
       THEN /\ Raises
            /\ UNCHANGED <<python_path, checks_performed, errors>>
       ELSE /\ python_path' = found
            /\ checks_performed' =
                 Append(checks_performed, <<"Searched for system Python 3.13">>)
            /\ IF found = None
               THEN /\ errors' = errors \o
                        << <<"Python 3.13 not found on system">>,
                           <<"Searched locations: ", PYTHON_SEARCH_PATHS>> >>
                    /\ Returns("ERROR")
               ELSE /\ UNCHANGED errors
                    /\ Continues("verify")
    /\ UNCHANGED <<fs, venv, uv_on_path, toml, project, version,
                   venv_base_python, in_virtualenv, python_environment,
                   uv_configuration, warnings, calls, call_results>>

\* lines 101-130: re-check of the located runtime and its version tuple
VerifyVersion ==
    /\ pc = "verify"
    /\ IF ProbeRaises(python_path)
       THEN /\ Raises
            /\ UNCHANGED <<version, checks_performed, errors>>
       ELSE IF ~is_python_313(python_path)
       THEN /\ errors' = Append(errors,
                 <<"Python at ", python_path, " is version ",
                   VersionStr(get_python_version(python_path)),
                   ", not 3.13.x as required">>)
            /\ Returns("ERROR")
            /\ UNCHANGED <<version, checks_performed>>
       ELSE /\ checks_performed' =
                 Append(checks_performed, <<"Python 3.13 detected">>)
            /\ version' = get_python_version(python_path)
            /\ IF version' = NoVersion
               THEN /\ errors' = Append(errors,
                         <<"Could not determine version for Python at ",
                           python_path>>)
                    /\ Returns("ERROR")
               ELSE /\ UNCHANGED errors
                    /\ Continues("venv")
    /\ UNCHANGED <<fs, venv, uv_on_path, toml, project, python_path,
                   venv_base_python, in_virtualenv, python_environment,
                   uv_configuration, warnings, calls, call_results>>

\* lines 132-186: step 2, the virtual environment and its base interpreter
CheckVenv ==
    /\ pc = "venv"
    /\ LET base == get_venv_base_python
           in_venv == base # None
           checked == Append(checks_performed,
                             <<"Checked for virtual environment">>)
       IN
       /\ venv_base_python' = base
       /\ in_virtualenv' = in_venv
       /\ IF in_venv /\ ProbeRaises(base)
          THEN /\ Raises
               /\ checks_performed' = checked
               /\ UNCHANGED <<errors, python_environment>>
          ELSE IF in_venv /\ ~is_python_313(base)
          THEN /\ errors' = Append(errors,
                    <<"Virtual environment uses Python ",
                      VersionStr(get_python_version(base)),
                      ", not system Python 3.13 (base: ", base, ")">>)
               /\ checks_performed' = checked
               /\ IF PythonEnvironmentRaises(python_path, version)
                  THEN /\ Raises
                       /\ UNCHANGED python_environment
                  ELSE /\ python_environment' =
                            PythonEnvironment(python_path, version, FALSE,
                                              in_venv, base)
                       /\ Returns("FAIL")
          ELSE /\ UNCHANGED errors
               /\ IF PythonEnvironmentRaises(python_path, version)
                  THEN /\ Raises
                       /\ checks_performed' =
                            checked \o
                            (IF in_venv
                             THEN << <<"Virtual environment based on system Python 3.13 (valid)">> >>
                             ELSE <<>>)
                       /\ UNCHANGED python_environment
                  ELSE /\ python_environment' =
                            PythonEnvironment(python_path, version, TRUE,
                                              in_venv, base)
                       /\ checks_performed' =
                            checked \o
                            (IF in_venv
                             THEN << <<"Virtual environment based on system Python 3.13 (valid)">> >>
                             ELSE <<>>)
                            \o << <<"Python from approved path (",
                                    Parent(python_path), ")">> >>
                       /\ Continues("tool")
    /\ UNCHANGED <<fs, venv, uv_on_path, toml, project, python_path, version,
                   uv_configuration, warnings, calls, call_results>>

\* mutant: the step removes the tool it has found
CheckTool_uninstalling ==
    /\ pc = "tool"
    /\ uv_on_path' = FALSE
    /\ IF ~check_uv_installed
       THEN /\ errors' = Append(errors,
                 <<"UV package manager not found in PATH">>)
            /\ UNCHANGED checks_performed
            /\ Returns("ERROR")
       ELSE /\ checks_performed' =
                 Append(checks_performed, <<"UV package manager detected">>)
            /\ UNCHANGED errors
            /\ Continues("config")
    /\ UNCHANGED <<fs, venv, toml, project, python_path, version,
                   venv_base_python, in_virtualenv, python_environment,
                   uv_configuration, warnings, calls, call_results>>

\* lines 188-200: step 3, the uv tool
CheckTool ==
    /\ pc = "tool"
    /\ IF ~check_uv_installed
       THEN /\ errors' = Append(errors,
                 <<"UV package manager not found in PATH">>)
            /\ UNCHANGED checks_performed
            /\ Returns("ERROR")
       ELSE /\ checks_performed' =
                 Append(checks_performed, <<"UV package manager detected">>)
            /\ UNCHANGED errors
            /\ Continues("config")
    /\ UNCHANGED <<fs, venv, uv_on_path, toml, project, python_path, version,
                   venv_base_python, in_virtualenv, python_environment,
                   uv_configuration, warnings, calls, call_results>>

\* lines 202-231: step 4, the configuration and its compliance
ResolveConfig ==
    /\ pc = "config"
    /\ \E pr \in ProjectStates :
         \* the files are the ones an earlier run over this root has read
         /\ project.read => pr = project
         /\ project' = pr
         /\ LET uv_config_dict == validate_uv_config(pr)
                config_file_path == get_uv_config_path(pr)
                validated == Append(checks_performed,
                                    <<"Validated UV configuration">>)
            IN
            IF config_file_path = None
            THEN /\ warnings' = Append(warnings,
                      <<"No UV configuration file found (uv.toml or pyproject.toml)">>)
                 /\ checks_performed' = validated
                 /\ UNCHANGED calls
                 /\ IF UVConfigurationRaises(pr.uv_toml.kind # "absent",
                                             None, None)
                    THEN /\ Raises
                         /\ UNCHANGED uv_configuration
                    ELSE /\ uv_configuration' =
                              UVConfiguration("uv.toml", None, None,
                                  uv_config_dict.python_version_pinned, FALSE,
                                  << <<"UV configuration file not found">> >>)
                         /\ Continues("final")
            ELSE /\ UNCHANGED warnings
                 /\ IF UVConfigurationRaises(TRUE,
                           uv_config_dict.python_downloads,
                           uv_config_dict.python_preference)
                    THEN /\ Raises
                         /\ checks_performed' = validated
                         /\ UNCHANGED <<uv_configuration, calls>>
                    ELSE /\ uv_configuration' =
                              check_compliance(
                                  UVConfiguration(config_file_path,
                                      uv_config_dict.python_downloads,
                                      uv_config_dict.python_preference,
                                      uv_config_dict.python_version_pinned,
                                      FALSE, <<>>))
                         /\ calls' = calls + 1
                         /\ checks_performed' =
                              Append(validated,
                                     <<"UV compliance check completed">>)
                         /\ Continues("final")
    /\ UNCHANGED <<fs, venv, uv_on_path, toml, python_path, version,
                   venv_base_python, in_virtualenv, python_environment,
                   errors, call_results>>

\* mutant: the verdict is returned without its configuration object
FinalStatus_dropping_config ==
    /\ pc = "final"
    /\ errors' = <<>>
    /\ uv_configuration' = NoConfiguration
    /\ IF uv_configuration.is_compliant
       THEN /\ checks_performed' =
                 checks_performed
                 \o << <<"UV prevents Python downloads">>,
                       <<"UV uses system Python only">> >>
                 \o (IF ~in_virtualenv
                     THEN << <<"No virtual environment conflicts">> >>
                     ELSE <<>>)
            /\ Returns("PASS")
       ELSE /\ UNCHANGED checks_performed
            /\ Returns("FAIL")
    /\ UNCHANGED <<fs, venv, uv_on_path, toml, project, python_path, version,
                   venv_base_python, in_virtualenv, python_environment,
                   warnings, calls, call_results>>

\* lines 233-257: step 5, the final status
FinalStatus ==
    /\ pc = "final"
    /\ errors' = <<>>
    /\ IF uv_configuration.is_compliant
       THEN /\ checks_performed' =
                 checks_performed
                 \o << <<"UV prevents Python downloads">>,
                       <<"UV uses system Python only">> >>
                 \o (IF ~in_virtualenv
                     THEN << <<"No virtual environment conflicts">> >>
                     ELSE <<>>)
            /\ Returns("PASS")
       ELSE /\ UNCHANGED checks_performed
            /\ Returns("FAIL")
    /\ UNCHANGED <<fs, venv, uv_on_path, toml, project, python_path, version,
                   venv_base_python, in_virtualenv, python_environment,
                   uv_configuration, warnings, calls, call_results>>

Next ==
    \/ LocateRuntime
    \/ VerifyVersion
    \/ CheckVenv
    \/ CheckTool
    \/ ResolveConfig
    \/ FinalStatus

Spec == Init /\ [][Next]_vars

----------------------------------------------------------------------------
(* validate_python_environment called MaxRuns times over one environment   *)

MaxRuns == 2

\* the violations a verdict shows
Violations ==
    IF uv_configuration.present THEN uv_configuration.compliance_violations
    ELSE <<>>

\* what a run ended with
Outcome ==
    [pc |-> pc, status |-> status, violations |-> Violations,
     errors |-> errors]

\* lines 75-80: the next call starts with fresh locals; the environment is
\* what the run before has left
Rerun ==
    /\ pc \in {"done", Raised}
    /\ runs < MaxRuns
    /\ runs' = runs + 1
    /\ previous' = Outcome
    /\ pc' = "start"
    /\ python_path' = None
    /\ version' = NoVersion
    /\ venv_base_python' = None
    /\ in_virtualenv' = FALSE
    /\ python_environment' = NoEnvironment
    /\ uv_configuration' = NoConfiguration
    /\ errors' = <<>>
    /\ warnings' = <<>>
    /\ checks_performed' = <<>>
    /\ status' = None
    /\ exit_code' = -1
    /\ calls' = 0
    /\ UNCHANGED <<fs, venv, uv_on_path, toml, project, probes, is_313,
                   uv_config_path, uv_config, probes_changed, other_results>>

NextRerun == Next \/ Rerun

SpecRerun == Init /\ [][NextRerun]_vars

----------------------------------------------------------------------------
(* validate_python_environment over an executable that may change between  *)
(* the probes of one run.  The located path is probed again at line 101    *)
(* and once more at line 119 (line 107 in the failing branch), so the step *)
(* VerifyVersion is taken here as its two probes, with the file free to    *)
(* change before each of them.                                             *)

\* the file at the located path is replaced, removed or made unlaunchable
ProbeResultChanges ==
    /\ pc \in {"verify", "version"}
    /\ ~probes_changed
    /\ \E entry \in Entries \ {fs[python_path]} :
         fs' = [fs EXCEPT ![python_path] = entry]
    /\ probes_changed' = TRUE
    /\ UNCHANGED <<venv, uv_on_path, toml, project, pc, python_path, version,
                   venv_base_python, in_virtualenv, python_environment,
                   uv_configuration, errors, warnings, checks_performed,
                   status, exit_code, calls, probes, is_313, uv_config_path,
                   uv_config, runs, previous, other_results>>

\* lines 101-117: the re-check of the located runtime
RecheckVersion ==
    /\ pc = "verify"
    /\ IF ProbeRaises(python_path)
       THEN /\ Raises
            /\ UNCHANGED <<checks_performed, errors>>
       ELSE IF ~is_python_313(python_path)
       THEN /\ errors' = Append(errors,
                 <<"Python at ", python_path, " is version ",
                   VersionStr(get_python_version(python_path)),
                   ", not 3.13.x as required">>)
            /\ Returns("ERROR")
            /\ UNCHANGED checks_performed
       ELSE /\ checks_performed' =
                 Append(checks_performed, <<"Python 3.13 detected">>)
            /\ UNCHANGED errors
            /\ Continues("version")
    /\ UNCHANGED <<fs, venv, uv_on_path, toml, project, python_path, version,
                   venv_base_python, in_virtualenv, python_environment,
                   uv_configuration, warnings, calls, call_results>>

\* lines 119-130: the version triple of the located runtime
ReadVersion ==
    /\ pc = "version"
    /\ IF ProbeRaises(python_path)
       THEN /\ Raises
            /\ UNCHANGED <<version, errors>>
       ELSE /\ version' = get_python_version(python_path)
            /\ IF version' = NoVersion
               THEN /\ errors' = Append(errors,
                         <<"Could not determine version for Python at ",
                           python_path>>)
                    /\ Returns("ERROR")
               ELSE /\ UNCHANGED errors
                    /\ Continues("venv")
    /\ UNCHANGED <<fs, venv, uv_on_path, toml, project, python_path,
                   venv_base_python, in_virtualenv, python_environment,
                   uv_configuration, warnings, checks_performed, calls,
                   call_results>>

NextUnstable ==
    \/ LocateRuntime
    \/ ProbeResultChanges
    \/ RecheckVersion
    \/ ReadVersion
    \/ CheckVenv
    \/ CheckTool
    \/ ResolveConfig
    \/ FinalStatus

SpecUnstable == Init /\ [][NextUnstable]_vars

----------------------------------------------------------------------------
(* check_compliance on its own: every UVConfiguration object that passes   *)
(* the field validators, with check_compliance called on it MaxCalls times *)

MaxCalls == 2

PinSamples == {NoPin, << <<>> >>, << <<"3", ".", "1", "3">> >>}

StaleViolations == {<<>>, << <<"stale">> >>}

InitCompliance ==
    /\ fs = [p \in ExecPaths |-> Absent]
    /\ venv = [isolated |-> FALSE, cfg |-> "missing"]
    /\ uv_on_path = TRUE
    /\ toml = TRUE
    /\ project = NotRead
    /\ pc = "object"
    /\ python_path = None
    /\ version = NoVersion
    /\ venv_base_python = None
    /\ in_virtualenv = FALSE
    /\ python_environment = NoEnvironment
    /\ uv_configuration \in
         {UVConfiguration("uv.toml", d, p, pin, c, v) :
            d \in DownloadsLiteral, p \in PreferenceLiteral,
            pin \in PinSamples, c \in BOOLEAN, v \in StaleViolations}
    /\ errors = <<>>
    /\ warnings = <<>>
    /\ checks_performed = <<>>
    /\ status = None
    /\ exit_code = -1
    /\ calls = 0
    /\ NothingCalled

\* mutant: the new violations are appended to the list the object held
CheckCompliance_extending ==
    /\ pc = "object"
    /\ calls < MaxCalls
    /\ uv_configuration' =
         [check_compliance(uv_configuration) EXCEPT
            !.compliance_violations =
                uv_configuration.compliance_violations \o @]
    /\ calls' = calls + 1
    /\ UNCHANGED <<fs, venv, uv_on_path, toml, project, pc, python_path,
                   version, venv_base_python, in_virtualenv,
                   python_environment, errors, warnings, checks_performed,
                   status, exit_code, call_results>>

\* config.check_compliance()
CheckCompliance ==
    /\ pc = "object"
    /\ calls < MaxCalls
    /\ uv_configuration' = check_compliance(uv_configuration)
    /\ calls' = calls + 1
    /\ UNCHANGED <<fs, venv, uv_on_path, toml, project, pc, python_path,
                   version, venv_base_python, in_virtualenv,
                   python_environment, errors, warnings, checks_performed,
                   status, exit_code, call_results>>

NextCompliance == CheckCompliance

SpecCompliance == InitCompliance /\ [][NextCompliance]_vars

----------------------------------------------------------------------------
(* Every UVConfiguration object: the ones validate_python_environment      *)
(* builds, and the ones check_compliance is called on directly             *)

InitObjects == Init \/ InitCompliance

NextObjects == Next \/ NextCompliance

SpecObjects == InitObjects /\ [][NextObjects]_vars

----------------------------------------------------------------------------
(* The version probe on its own: is_python_313 and get_python_version      *)
(* called on one path, MaxProbes times, for every outcome of launching it  *)

MaxProbes == 2

\* the components a version text is put together from
MajorSamples == {<<"3">>, <<"2">>}
MinorSamples == {<<"1", "3">>, <<"1", "2">>, <<"1", "4">>, <<"7">>}
MicroSamples == {<<"0">>, <<"9">>, <<"9", "9">>, <<"1", "8">>}
SuffixSamples == {<<>>, <<"r", "c", "1">>, <<"+">>}
NoDigitSamples == {<<>>, <<"r", "c", "1">>, <<"x", "1">>}

\* "Python X.Y.T" and "Python X.Y", each with the newline print() adds
VersionText3(X, Y, T) == PythonLabel \o X \o <<".">> \o Y \o <<".">> \o T \o <<"\n">>
VersionText2(X, Y) == PythonLabel \o X \o <<".">> \o Y \o <<"\n">>

OutputSamples ==
    {VersionText3(X, Y, Z \o S) :
        X \in MajorSamples, Y \in MinorSamples,
        Z \in MicroSamples, S \in SuffixSamples}
    \cup {VersionText3(X, Y, T) :
        X \in MajorSamples, Y \in MinorSamples, T \in NoDigitSamples}
    \cup {VersionText2(X, Y) : X \in MajorSamples, Y \in MinorSamples}
    \cup {<<>>, <<"\n">>, <<"I", "n", "v", "a", "l", "i", "d", "\n">>,
          <<"p", "y", "t", "h", "o", "n", " ", "3", ".", "1", "3", ".", "0", "\n">>}

\* a launch that ran to its end: the text on one stream, or on both
RanSamples ==
    {[launch |-> "ok", returncode |-> rc, stdout |-> t, stderr |-> <<>>] :
        rc \in {0, 1}, t \in OutputSamples}
    \cup {[launch |-> "ok", returncode |-> rc, stdout |-> <<>>, stderr |-> t] :
        rc \in {0, 1}, t \in OutputSamples}
    \cup {[launch |-> "ok", returncode |-> 0, stdout |-> t, stderr |-> Text312] :
        t \in OutputSamples}

\* subprocess.run raised TimeoutExpired / another SubprocessError
TimedOut ==
    [launch |-> "timeout", returncode |-> 0, stdout |-> <<>>, stderr |-> <<>>]
SubprocessFailed ==
    [launch |-> "subprocess_error", returncode |-> 0,
     stdout |-> <<>>, stderr |-> <<>>]

ProbeEntries ==
    {Absent, Directory}
        \cup {File(e) : e \in RanSamples \cup {TimedOut, SubprocessFailed,
                                               NotLaunchable}}

InitProbe ==
    /\ python_path = PYTHON_SEARCH_PATHS[1]
    /\ \E entry \in ProbeEntries :
         fs = [p \in ExecPaths |-> IF p = python_path THEN entry ELSE Absent]
    /\ venv = [isolated |-> FALSE, cfg |-> "missing"]
    /\ uv_on_path = TRUE
    /\ toml = TRUE
    /\ project = NotRead
    /\ pc = "probe"
    /\ version = NoVersion
    /\ venv_base_python = None
    /\ in_virtualenv = FALSE
    /\ python_environment = NoEnvironment
    /\ uv_configuration = NoConfiguration
    /\ errors = <<>>
    /\ warnings = <<>>
    /\ checks_performed = <<>>
    /\ status = None
    /\ exit_code = -1
    /\ calls = 0
    /\ NothingCalled

\* is_python_313(python_path) and get_python_version(python_path), one after
\* the other as lines 101-120 of the validator call them
ProbeRuntime ==
    /\ pc = "probe"
    /\ probes < MaxProbes
    /\ IF ProbeRaises(python_path)
       THEN /\ pc' = Raised
            /\ UNCHANGED <<version, is_313, probes>>
       ELSE /\ is_313' = is_python_313(python_path)
            /\ version' = get_python_version(python_path)
            /\ probes' = probes + 1
            /\ UNCHANGED pc
    /\ UNCHANGED <<fs, venv, uv_on_path, toml, project, python_path,
                   venv_base_python, in_virtualenv, python_environment,
                   uv_configuration, errors, warnings, checks_performed,
                   status, exit_code, calls, uv_config_path, uv_config,
                   run_history, other_results>>

NextProbe == ProbeRuntime

SpecProbe == InitProbe /\ [][NextProbe]_vars

----------------------------------------------------------------------------
(* Configuration resolution on its own: get_uv_config_path and             *)
(* validate_uv_config called on a project root, with and without the toml  *)
(* library                                                                 *)

\* every combination of the two files, none left out
ResolveStates ==
    {[read |-> TRUE, uv_toml |-> u, pyproject |-> p, python_version |-> pin] :
        u \in {NoConfigFile, ConfigDirectory}
                \cup {ConfigFile(c) : c \in UvTomlContents},
        p \in {NoConfigFile, ConfigDirectory}
                \cup {ConfigFile(c) : c \in PyprojectContents \cup {NoContent}},
        pin \in PinFiles}

InitResolve ==
    /\ fs = [p \in ExecPaths |-> Absent]
    /\ venv = [isolated |-> FALSE, cfg |-> "missing"]
    /\ uv_on_path = TRUE
    /\ toml \in BOOLEAN
    /\ project \in ResolveStates
    /\ pc = "resolve"
    /\ python_path = None
    /\ version = NoVersion
    /\ venv_base_python = None
    /\ in_virtualenv = FALSE
    /\ python_environment = NoEnvironment
    /\ uv_configuration = NoConfiguration
    /\ errors = <<>>
    /\ warnings = <<>>
    /\ checks_performed = <<>>
    /\ status = None
    /\ exit_code = -1
    /\ calls = 0
    /\ NothingCalled

\* get_uv_config_path(project_root)
GetUvConfigPath ==
    /\ pc = "resolve"
    /\ uv_config_path' = get_uv_config_path(project)
    /\ pc' = "path_returned"
    /\ UNCHANGED <<fs, venv, uv_on_path, toml, project, python_path, version,
                   venv_base_python, in_virtualenv, python_environment,
                   uv_configuration, errors, warnings, checks_performed,
                   status, exit_code, calls, probes, is_313, uv_config,
                   run_history, other_results>>

\* validate_uv_config(project_root)
ValidateUvConfig ==
    /\ pc = "resolve"
    /\ uv_config' = validate_uv_config(project)
    /\ pc' = "config_returned"
    /\ UNCHANGED <<fs, venv, uv_on_path, toml, project, python_path, version,
                   venv_base_python, in_virtualenv, python_environment,
                   uv_configuration, errors, warnings, checks_performed,
                   status, exit_code, calls, probes, is_313, uv_config_path,
                   run_history, other_results>>

NextResolve ==
    \/ GetUvConfigPath
    \/ ValidateUvConfig

SpecResolve == InitResolve /\ [][NextResolve]_vars

----------------------------------------------------------------------------
(* The returned verdict written as JSON and read back                      *)

\* result.model_dump_json() on the verdict a run returned
DumpJson ==
    /\ pc = "done"
    /\ json_output' =
          model_dump_json(ValidationResult(status, python_environment,
                                           uv_configuration, errors,
                                           warnings, checks_performed))
    /\ pc' = "dumped"
    /\ UNCHANGED <<fs, venv, uv_on_path, toml, project, python_path, version,
                   venv_base_python, in_virtualenv, python_environment,
                   uv_configuration, errors, warnings, checks_performed,
                   status, exit_code, calls, probes, is_313, uv_config_path,
                   uv_config, run_history, global_uv_config,
                   global_conflicts, reloaded, legacy_config, migration>>

\* ValidationResult.model_validate_json(text) on what was written
LoadJson ==
    /\ pc = "dumped"
    /\ IF ModelValidateJsonRaises(json_output, project)
       THEN /\ pc' = "reload_raised"
            /\ UNCHANGED reloaded
       ELSE /\ pc' = "reloaded"
            /\ reloaded' = model_validate_json(json_output)
    /\ UNCHANGED <<fs, venv, uv_on_path, toml, project, python_path, version,
                   venv_base_python, in_virtualenv, python_environment,
                   uv_configuration, errors, warnings, checks_performed,
                   status, exit_code, calls, probes, is_313, uv_config_path,
                   uv_config, run_history, global_uv_config,
                   global_conflicts, json_output, legacy_config, migration>>

NextReport ==
    \/ Next
    \/ DumpJson
    \/ LoadJson

SpecReport == Init /\ [][NextReport]_vars

----------------------------------------------------------------------------
(* check_global_uv_conflicts on its own, for every global file, with and   *)
(* without the toml library                                                *)

\* a file's text with the two keys spelled with underscores
UnderscoreContent(ok, sec, downloads, preference) ==
    [syntax_ok |-> ok, section |-> sec,
     keys |-> [k \in KeyNames |->
                 CASE k = "python_downloads" -> downloads
                   [] k = "python_preference" -> preference
                   [] OTHER -> None]]

GlobalContents ==
    UvTomlContents
        \cup {UnderscoreContent(TRUE, "top", d, p) :
                d \in DownloadsSamples, p \in PreferenceSamples}

GlobalStates ==
    {NoConfigFile, ConfigDirectory} \cup {ConfigFile(c) : c \in GlobalContents}

InitGlobal ==
    /\ fs = [p \in ExecPaths |-> Absent]
    /\ venv = [isolated |-> FALSE, cfg |-> "missing"]
    /\ uv_on_path = TRUE
    /\ toml \in BOOLEAN
    /\ project = NotRead
    /\ pc = "global"
    /\ python_path = None
    /\ version = NoVersion
    /\ venv_base_python = None
    /\ in_virtualenv = FALSE
    /\ python_environment = NoEnvironment
    /\ uv_configuration = NoConfiguration
    /\ errors = <<>>
    /\ warnings = <<>>
    /\ checks_performed = <<>>
    /\ status = None
    /\ exit_code = -1
    /\ calls = 0
    /\ probes = 0
    /\ is_313 = FALSE
    /\ uv_config_path = None
    /\ uv_config = [config_file |-> None, python_downloads |-> None,
                    python_preference |-> None,
                    python_version_pinned |-> NoPin]
    /\ runs = 1
    /\ previous = NoPrevious
    /\ probes_changed = FALSE
    /\ global_uv_config \in GlobalStates
    /\ global_conflicts = NoConflictsResult
    /\ json_output = NoJson
    /\ reloaded = NoVerdict
    /\ legacy_config = NoLegacy
    /\ migration = NoMigration

\* check_global_uv_conflicts(project_root)
CheckGlobalUvConflicts ==
    /\ pc = "global"
    /\ global_conflicts' = check_global_uv_conflicts(global_uv_config)
    /\ pc' = "global_returned"
    /\ UNCHANGED <<fs, venv, uv_on_path, toml, project, python_path, version,
                   venv_base_python, in_virtualenv, python_environment,
                   uv_configuration, errors, warnings, checks_performed,
                   status, exit_code, calls, probes, is_313, uv_config_path,
                   uv_config, run_history, global_uv_config, json_output,
                   reloaded, legacy_config, migration>>

NextGlobal == CheckGlobalUvConflicts

SpecGlobal == InitGlobal /\ [][NextGlobal]_vars

----------------------------------------------------------------------------
(* migrate_legacy_uv_config, then validate_uv_config on the same root      *)

\* the text _create_constitutional_uv_toml writes: both settings under a
\* [tool.uv] header
ConstitutionalContent == Content(TRUE, "tool.uv", "never", "only-system")

LegacyStates ==
    {[config |-> k, backup |-> "absent"] : k \in {"absent", "file", "dir"}}

InitMigrate ==
    /\ fs = [p \in ExecPaths |-> Absent]
    /\ venv = [isolated |-> FALSE, cfg |-> "missing"]
    /\ uv_on_path = TRUE
    /\ toml \in BOOLEAN
    /\ project \in ResolveStates
    /\ pc = "migrate"
    /\ python_path = None
    /\ version = NoVersion
    /\ venv_base_python = None
    /\ in_virtualenv = FALSE
    /\ python_environment = NoEnvironment
    /\ uv_configuration = NoConfiguration
    /\ errors = <<>>
    /\ warnings = <<>>
    /\ checks_performed = <<>>
    /\ status = None
    /\ exit_code = -1
    /\ calls = 0
    /\ probes = 0
    /\ is_313 = FALSE
    /\ uv_config_path = None
    /\ uv_config = [config_file |-> None, python_downloads |-> None,
                    python_preference |-> None,
                    python_version_pinned |-> NoPin]
    /\ runs = 1
    /\ previous = NoPrevious
    /\ probes_changed = FALSE
    /\ global_uv_config = NoConfigFile
    /\ global_conflicts = NoConflictsResult
    /\ json_output = NoJson
    /\ reloaded = NoVerdict
    /\ legacy_config \in LegacyStates
    /\ migration = NoMigration

\* migrate_legacy_uv_config(project_root, create_backup); write_ok is
\* whether mkdir and write_text of _create_constitutional_uv_toml succeed
MigrateLegacyUvConfig ==
    /\ pc = "migrate"
    /\ \E create_backup \in BOOLEAN, write_ok \in BOOLEAN :
          LET result == [status |-> "error", backup_path |-> None,
                         migrated_from |-> None, migrated_to |-> "uv.toml"]
              written == [project EXCEPT
                             !.uv_toml = ConfigFile(ConstitutionalContent)]
          IN  IF project.uv_toml.kind # "absent"
              THEN /\ migration' = [result EXCEPT
                                       !.status = "no_migration_needed"]
                   /\ UNCHANGED <<project, legacy_config>>
              ELSE IF legacy_config.config = "absent"
              THEN /\ migration' = [result EXCEPT
                                       !.status = IF write_ok THEN "success"
                                                  ELSE "error"]
                   /\ project' = IF write_ok THEN written ELSE project
                   /\ UNCHANGED legacy_config
              ELSE IF create_backup /\ legacy_config.config = "dir"
              THEN \* shutil.copy2 raises on a directory
                   /\ migration' = [result EXCEPT
                                       !.migrated_from = ".uv/config"]
                   /\ UNCHANGED <<project, legacy_config>>
              ELSE /\ migration' =
                         [result EXCEPT
                             !.migrated_from = ".uv/config",
                             !.backup_path = IF create_backup
                                             THEN ".uv/config.backup"
                                             ELSE None,
                             !.status = IF write_ok THEN "success"
                                        ELSE "error"]
                   /\ legacy_config' =
                         [legacy_config EXCEPT
                             !.backup = IF create_backup THEN "file" ELSE @]
                   /\ project' = IF write_ok THEN written ELSE project
    /\ pc' = "resolve"
    /\ UNCHANGED <<fs, venv, uv_on_path, toml, python_path, version,
                   venv_base_python, in_virtualenv, python_environment,
                   uv_configuration, errors, warnings, checks_performed,
                   status, exit_code, calls, probes, is_313, uv_config_path,
                   uv_config, run_history, global_uv_config,
                   global_conflicts, json_output, reloaded>>

NextMigrate ==
    \/ MigrateLegacyUvConfig
    \/ GetUvConfigPath
    \/ ValidateUvConfig

SpecMigrate == InitMigrate /\ [][NextMigrate]_vars

----------------------------------------------------------------------------
(* Properties *)

\* the run is over: a verdict was returned or an exception left the function
RunEnded == pc \in {"done", Raised}

\* find_system_python itself raised: nothing was logged before the exception
LocateRaised == pc = Raised /\ checks_performed = <<>>

\* the settings read from the project satisfy all three rules
ResolvedCompliant(pr) ==
    LET d == validate_uv_config(pr) IN
    /\ get_uv_config_path(pr) # None
    /\ d.python_downloads \in {"manual", "never"}
    /\ d.python_preference = "only-system"
    /\ d.python_version_pinned # NoPin

\* C1: in every run outside a virtual environment with uv on PATH, a located
\* runtime and a compliant configuration give PASS / exit 0, a located
\* runtime and a non-compliant configuration give FAIL / exit 1 with at
\* least one violation, and no located runtime gives ERROR / exit 2.
C1_VerdictByRuntimeAndConfig ==
    (RunEnded /\ ~venv.isolated /\ uv_on_path) =>
        /\ (python_path # None /\ project.read /\ ResolvedCompliant(project))
              => (pc = "done" /\ status = "PASS" /\ exit_code = 0)
        /\ (python_path # None /\ project.read /\ ~ResolvedCompliant(project))
              => (/\ pc = "done" /\ status = "FAIL" /\ exit_code = 1
                  /\ Len(uv_configuration.compliance_violations) >= 1)
        /\ (python_path = None /\ ~LocateRaised)
              => (pc = "done" /\ status = "ERROR" /\ exit_code = 2)

\* C2: the exit code of every returned verdict is fixed by its status alone:
\* PASS gives 0, FAIL gives 1, ERROR gives 2.
C2_ExitCodeOfStatus ==
    pc = "done" =>
        /\ status \in {"PASS", "FAIL", "ERROR"}
        /\ status = "PASS" => exit_code = 0
        /\ status = "FAIL" => exit_code = 1
        /\ status = "ERROR" => exit_code = 2

\* C2 witness: a FAIL verdict that carries errors and no configuration
C2_Witness ==
    /\ pc = "done" /\ status = "FAIL" /\ exit_code = 1
    /\ errors # <<>> /\ ~uv_configuration.present

\* the i-th search path exists, is a regular file and probes as 3.13
Qualifies(i) ==
    LET p == PYTHON_SEARCH_PATHS[i] IN
    /\ fs[p].kind = "file"
    /\ fs[p].exec.launch = "ok"
    /\ is_python_313(p)

FirstQualifying ==
    IF \E i \in 1..Len(PYTHON_SEARCH_PATHS) : Qualifies(i)
    THEN PYTHON_SEARCH_PATHS[
             CHOOSE i \in 1..Len(PYTHON_SEARCH_PATHS) :
                 Qualifies(i) /\ \A j \in 1..(i - 1) : ~Qualifies(j)]
    ELSE None

\* C3: for every filesystem state find_system_python returns the first
\* search path, in list order, that exists, is a regular file and probes as
\* 3.13, and returns none exactly when no path qualifies.
C3_FirstQualifyingPath ==
    pc # "start" => (~LocateRaised /\ python_path = FirstQualifying)

\* C4: with the runtime valid and uv present, a project without a
\* configuration file gives a FAIL verdict, not an exception, whose
\* configuration carries the "configuration file not found" violation.
C4_MissingConfigIsFail ==
    (RunEnded /\ project.read /\ get_uv_config_path(project) = None) =>
        /\ pc = "done"
        /\ status = "FAIL"
        /\ uv_configuration.present
        /\ uv_configuration.compliance_violations
             = << <<"UV configuration file not found">> >>

\* the base check of lines 140-170 fails: a base path is returned and it
\* does not probe as 3.13
VenvBaseCheckFails ==
    /\ get_venv_base_python # None
    /\ ~is_python_313(get_venv_base_python)

\* C5 as stated: in every environment, a verdict returned when no runtime
\* was located or uv is not on PATH has status ERROR and non-empty errors.
C5_ErrorWheneverRuntimeOrToolMissing ==
    (pc = "done" /\ (python_path = None \/ ~uv_on_path)) =>
        (status = "ERROR" /\ errors # <<>>)

\* C5 as amended: a verdict returned when no runtime was located, or when
\* uv is not on PATH and the virtual-environment base check did not fail
\* first, has status ERROR and non-empty errors.
C5_ErrorWhenRuntimeMissingOrToolCheckFails ==
    (pc = "done"
        /\ (python_path = None \/ (~uv_on_path /\ ~VenvBaseCheckFails))) =>
        (status = "ERROR" /\ errors # <<>>)

\* C5 witness: inside a virtual environment with a valid base, uv missing
C5_Witness ==
    /\ pc = "done" /\ status = "ERROR" /\ errors # <<>>
    /\ ~uv_on_path /\ python_path # None /\ in_virtualenv

\* the base interpreter that the descriptor's home directory names:
\* home/python3.13 if it is a file, else home/python3 if it is a file
DescriptorBase ==
    IF venv.isolated /\ venv.cfg = "home"
    THEN IF fs[VenvHome313].kind = "file" THEN VenvHome313
         ELSE IF fs[VenvHome3].kind = "file" THEN VenvHome3
         ELSE None
    ELSE None

\* the path runs and reports 3.13
ProbesAs313(p) == fs[p].exec.launch = "ok" /\ is_python_313(p)

\* C6: a PASS verdict is returned only when the located runtime is 3.13,
\* the base interpreter of the virtual environment (if the process is
\* isolated) is 3.13 too, and the configuration is compliant.
C6_PassOnlyWhenAllValid ==
    (pc = "done" /\ status = "PASS") =>
        /\ ProbesAs313(python_path)
        /\ DescriptorBase # None => ProbesAs313(DescriptorBase)
        /\ uv_configuration.is_compliant

\* C7: once the engine is past its virtual-environment step in an isolated
\* process whose base interpreter is not 3.13, it has returned FAIL with an
\* error that names the base path and the version detected for it.
C7_WrongBaseIsFail ==
    (/\ version # NoVersion /\ pc # "venv"
     /\ DescriptorBase # None
     /\ fs[DescriptorBase].exec.launch = "ok"
     /\ ~is_python_313(DescriptorBase)) =>
        /\ pc = "done"
        /\ status = "FAIL"
        /\ \E i \in 1..Len(errors) :
             /\ Len(errors[i]) = 5
             /\ errors[i][1] = "Virtual environment uses Python "
             /\ errors[i][2] = VersionStr(get_python_version(DescriptorBase))
             /\ errors[i][4] = DescriptorBase

FailingRules(cfg) ==
    (IF cfg.python_downloads \in {"manual", "never"} THEN 0 ELSE 1)
    + (IF cfg.python_preference = "only-system" THEN 0 ELSE 1)
    + (IF cfg.python_version_pinned # NoPin THEN 0 ELSE 1)

\* C9: after check_compliance the violation list has one entry for each
\* failing rule, for every combination of the three settings.
C9_OneViolationPerFailingRule ==
    calls > 0 =>
        Len(uv_configuration.compliance_violations)
            = FailingRules(uv_configuration)

\* C9 witness: two rules fail at once and both are listed
C9_Witness ==
    /\ calls > 0
    /\ pc = "object"
    /\ uv_configuration.python_downloads = "automatic"
    /\ uv_configuration.python_preference = "only-system"
    /\ uv_configuration.python_version_pinned = NoPin
    /\ Len(uv_configuration.compliance_violations) = 2

\* .python-version is a regular file with something other than whitespace
PinFilePresent(pr) ==
    /\ pr.python_version.kind = "file"
    /\ \E i \in 1..Len(pr.python_version.text) :
         ~IsSpace(pr.python_version.text[i])

\* the engine found a config file whose two settings are compliant
FoundCompliantSettings ==
    /\ project.read
    /\ get_uv_config_path(project) # None
    /\ validate_uv_config(project).python_downloads \in {"manual", "never"}
    /\ validate_uv_config(project).python_preference = "only-system"

----------------------------------------------------------------------------
\* C11: in the configuration object of every returned verdict, and after
\* every call of check_compliance, is_compliant is true exactly when
\* compliance_violations is empty; the list is recomputed from the settings,
\* so one more call on the object leaves it as it is.
C11_CompliantIffNoViolations ==
    (uv_configuration.present /\ (pc = "done" \/ calls > 0)) =>
        /\ uv_configuration.is_compliant
              <=> (uv_configuration.compliance_violations = <<>>)
        /\ calls > 0 => check_compliance(uv_configuration) = uv_configuration

\* a second call on an object that was built with a stale list and fails a rule
C11_Witness ==
    /\ pc = "object"
    /\ calls = MaxCalls
    /\ ~uv_configuration.is_compliant
    /\ uv_configuration.compliance_violations # <<>>

----------------------------------------------------------------------------
\* C12: get_python_version never raises to its caller; whatever launching
\* the executable does, the call returns a version triple or none.
C12_ProbeNeverRaises ==
    /\ pc # Raised
    /\ probes > 0 => (version = NoVersion \/ Len(version) = 3)

\* C13: is_python_313 returns a truth value for every path, true exactly
\* when the probe gave a version whose (major, minor) is (3, 13), whatever
\* the patch level, and false when the probe failed.
C13_TrueIffMajorMinor313 ==
    /\ pc # Raised
    /\ probes > 0 =>
         (is_313 <=> (version # NoVersion /\ version[1] = 3 /\ version[2] = 13))

\* the text the probe reads: stdout unless it is blank, stderr otherwise
OutputRead(e) ==
    IF \E i \in 1..Len(e.stdout) : ~IsSpace(e.stdout[i])
    THEN e.stdout ELSE e.stderr

\* the number a sample component writes
SampleValue(d) ==
    CASE d = <<"0">> -> 0 [] d = <<"2">> -> 2 [] d = <<"3">> -> 3
      [] d = <<"7">> -> 7 [] d = <<"9">> -> 9 [] d = <<"1", "2">> -> 12
      [] d = <<"1", "3">> -> 13 [] d = <<"1", "4">> -> 14
      [] d = <<"1", "8">> -> 18 [] d = <<"9", "9">> -> 99

\* C14: for output "Python X.Y.Z<suffix>" on stdout, or on stderr when
\* stdout is blank, get_python_version returns (X, Y, n) with n the leading
\* digits of the third component, the same on every probe of that output;
\* two components only, or a third one that starts with no digit, give none.
C14_VersionFromOutput ==
    (pc = "probe" /\ probes > 0 /\ fs[python_path].exec.launch = "ok") =>
        LET out == OutputRead(fs[python_path].exec) IN
        /\ \A X \in MajorSamples, Y \in MinorSamples :
             /\ \A Z \in MicroSamples, S \in SuffixSamples :
                  out = VersionText3(X, Y, Z \o S) =>
                      version = <<SampleValue(X), SampleValue(Y), SampleValue(Z)>>
             /\ \A T \in NoDigitSamples :
                  out = VersionText3(X, Y, T) => version = NoVersion
             /\ out = VersionText2(X, Y) => version = NoVersion

\* "Python 3.13.0rc1" read from stderr, probed a second time
C14_Witness ==
    /\ pc = "probe"
    /\ probes = MaxProbes
    /\ fs[python_path].exec.stdout = <<>>
    /\ fs[python_path].exec.stderr =
         VersionText3(<<"3">>, <<"1", "3">>, <<"0", "r", "c", "1">>)
    /\ version = <<3, 13, 0>>

----------------------------------------------------------------------------
\* C15: the summary of every FAIL or ERROR verdict names at least one
\* reason: under the FAIL heading stand all the violations, under the ERROR
\* heading all the fatal errors, and in both cases there is at least one.
C15_SummaryNamesReason ==
    (pc = "done" /\ status \in {"FAIL", "ERROR"}) =>
        LET reasons == Tail(to_summary) IN
        /\ reasons # <<>>
        /\ status = "ERROR" => reasons = errors
        /\ (status = "FAIL" /\ uv_configuration.present) =>
              reasons = uv_configuration.compliance_violations

\* C16: every PythonEnvironment the engine constructs has is_valid true
\* exactly when the (major, minor) of its version is (3, 13); the patch
\* level plays no part.
C16_ValidIffMajorMinor313 ==
    python_environment.present =>
        (python_environment.is_valid
            <=> (SubSeq(python_environment.version, 1, 2) = <<3, 13>>))

\* a value written in the file the engine resolved lies outside the Literal
\* type of its field
UnknownSetting(pr) ==
    LET path == get_uv_config_path(pr)
        c == IF path = "uv.toml" THEN pr.uv_toml.content
             ELSE pr.pyproject.content
    IN  /\ path # None
        /\ \/ TruthyOr(c.keys["python-downloads"], c.keys["python_downloads"])
                 \notin DownloadsLiteral
           \/ TruthyOr(c.keys["python-preference"], c.keys["python_preference"])
                 \notin PreferenceLiteral

\* C17: a configuration file with a python-downloads or python-preference
\* value outside the enumerated sets is handled like one without the
\* setting: the run returns a FAIL verdict and raises nothing.
C17_UnknownValueIsFail ==
    (RunEnded /\ project.read /\ UnknownSetting(project)) =>
        pc = "done" /\ status = "FAIL"

----------------------------------------------------------------------------
C19_NoneOnlyWhenNeitherFile ==
    pc = "path_returned" =>
        /\ (project.uv_toml.kind = "absent" /\ project.pyproject.kind = "file")
              => uv_config_path = "pyproject.toml"
        /\ uv_config_path = None =>
              (project.uv_toml.kind # "file" /\ project.pyproject.kind # "file")

\* C20: for a uv.toml that writes the two settings under a [tool.uv]
\* header, validate_uv_config returns the two values as written, with the
\* toml library and with the line scanner alike.
C20_SettingsUnderHeaderReturned ==
    (/\ pc = "config_returned"
     /\ project.uv_toml.kind = "file"
     /\ project.uv_toml.content.syntax_ok
     /\ project.uv_toml.content.section = "tool.uv") =>
        /\ uv_config.python_downloads
              = project.uv_toml.content.keys["python-downloads"]
        /\ uv_config.python_preference
              = project.uv_toml.content.keys["python-preference"]

----------------------------------------------------------------------------
\* the check log holds the entry
Logged(entry) ==
    \E i \in 1..Len(checks_performed) : checks_performed[i] = entry

\* C26: the steps come in the order runtime, tool, configuration, final
\* status: the tool is checked only after the runtime was located and
\* validated, the configuration is resolved only after the tool was found,
\* and a run that ends in ERROR has resolved no configuration, evaluated no
\* rule and returns a verdict without configuration object.
C26_StepsInOrder ==
    /\ (pc \in {"tool", "config", "final"} \/ Logged(<<"UV package manager detected">>))
          => /\ python_path # None
             /\ Logged(<<"Python 3.13 detected">>)
             /\ python_environment.present
    /\ (pc \in {"config", "final"} \/ project.read)
          => Logged(<<"UV package manager detected">>)
    /\ pc = "final" => (project.read /\ uv_configuration.present)
    /\ (pc = "done" /\ status = "ERROR")
          => /\ ~project.read
             /\ ~uv_configuration.present
             /\ calls = 0

\* an ERROR verdict of the tool check: the runtime was validated, nothing
\* of the configuration was read
C26_Witness ==
    /\ pc = "done"
    /\ status = "ERROR"
    /\ python_environment.present
    /\ ~uv_on_path
    /\ ~project.read

\* C28: every PASS verdict carries a runtime environment object and a
\* configuration object, so both assertions of to_summary's PASS branch hold.
C28_PassCarriesBothObjects ==
    (pc = "done" /\ status = "PASS") =>
        (python_environment.present /\ uv_configuration.present)

C28_Witness ==
    /\ pc = "done"
    /\ status = "PASS"
    /\ Len(to_summary) = 3

\* C29: in every returned verdict the errors list is non-empty exactly when
\* the status is ERROR.
C29_ErrorsIffError ==
    pc = "done" => ((errors # <<>>) <=> (status = "ERROR"))

----------------------------------------------------------------------------
\* C25: the check log only grows, so the log before a step is a prefix of
\* the log after it, and every step the engine takes (runtime search,
\* version check, virtual-environment check, tool check, configuration
\* resolution with its rule evaluation) appends at least one entry before
\* the run moves on or returns, whatever the status.  The last step, which
\* only turns the evaluated rules into the status, is held to the prefix
\* part alone.
C25_LogGrowsAtEveryStep ==
    [][(pc' # pc /\ pc' # Raised) =>
          /\ Len(checks_performed') >= Len(checks_performed)
          /\ SubSeq(checks_performed', 1, Len(checks_performed))
                = checks_performed
          /\ pc # "final" => Len(checks_performed') > Len(checks_performed)
      ]_vars

----------------------------------------------------------------------------
----------------------------------------------------------------------------
\* the run has ended with one of the two errors that follow the search
PostLocationError ==
    \E i \in 1..Len(errors) :
        errors[i][1] \in {"Python at ",
                          "Could not determine version for Python at "}

\* C27: as long as the located path reports the same on every probe of a
\* run, neither "is version ..., not 3.13.x as required" nor "Could not
\* determine version" can be the outcome, because find_system_python
\* returns only a path that has probed as 3.13; a run ends with one of them
\* only if the path changed what it reports between the probes.
C27_PostLocationErrorsNeedChange ==
    PostLocationError => probes_changed

\* the file went away between the re-check and the reading of the triple
C27_Witness ==
    /\ pc = "done"
    /\ status = "ERROR"
    /\ probes_changed
    /\ \E i \in 1..Len(errors) :
          errors[i][1] = "Could not determine version for Python at "

----------------------------------------------------------------------------
\* the value the global file writes for a setting, under either spelling
GlobalSetting(hyphen, underscore) ==
    TruthyOr(global_uv_config.content.keys[hyphen],
             global_uv_config.content.keys[underscore])

\* the parser in use has read the global file
GlobalParsed ==
    /\ global_uv_config.kind = "file"
    /\ ~(toml /\ ~global_uv_config.content.syntax_ok)

C23_ConflictsFlagAndResolution ==
    /\ pc # Raised
    /\ pc = "global_returned" =>
          /\ global_conflicts.has_conflicts
                <=> (global_conflicts.conflicts # <<>>)
          /\ global_conflicts.has_conflicts =>
                global_conflicts.resolution.command
                    = <<"mv", GlobalConfigPath, GlobalBackupPath>>
          /\ (global_uv_config.kind # "absent" /\ ~GlobalParsed) =>
                global_conflicts.has_conflicts

\* a global file that is not valid TOML, read with the toml library
C23_Witness ==
    /\ pc = "global_returned"
    /\ toml
    /\ global_uv_config.kind = "file"
    /\ ~global_uv_config.content.syntax_ok
    /\ global_conflicts.has_conflicts

----------------------------------------------------------------------------
\* C30: after a migration that succeeded (the project had no uv.toml, with
\* or without a legacy .uv/config) validate_uv_config on the same root
\* reports python_downloads = never and python_preference = only-system;
\* and a project that already has uv.toml gets no_migration_needed and is
\* left as it was.
C30_MigratedFileReadsBackCompliant ==
    /\ []((pc = "config_returned" /\ migration.status = "success") =>
             /\ uv_config.python_downloads = "never"
             /\ uv_config.python_preference = "only-system")
    /\ [][(pc = "migrate" /\ project.uv_toml.kind # "absent") =>
             /\ migration'.status = "no_migration_needed"
             /\ project' = project
             /\ legacy_config' = legacy_config]_vars

----------------------------------------------------------------------------
\* the violations a reloaded verdict shows
ReloadedViolations ==
    IF reloaded.uv_configuration.present
    THEN reloaded.uv_configuration.compliance_violations
    ELSE <<>>

====
